---- MODULE Spec2Model ----
(***************************************************************************)
(* Model of the AI orchestration layer of the ship-planning backend:       *)
(*   - AIService (src/src/services/AI/AIService.ts): the three model       *)
(*     instances, the prediction history, evaluateModels, auto-training;   *)
(*   - BaseModel (second half of src/src/routes/aiRoutes.ts): initialize,  *)
(*     train, predict, dispose;                                            *)
(*   - the HTTP layer (first half of src/src/routes/aiRoutes.ts):          *)
(*     initializeService, checkServiceStatus and the route handlers.       *)
(*                                                                         *)
(* Node.js runs one callback at a time.  A step of the model is one        *)
(* event-loop task together with the promise continuations (microtasks)    *)
(* it makes ready: code separated only by an await on an already settled   *)
(* promise runs in the same step; code waiting for file I/O (loadModel,    *)
(* model.save) or for model.fit resumes in a later step.                   *)
(*                                                                         *)
(* Every handler is a function from the program state (a record with one   *)
(* field per variable) to the program state; an action applies one.        *)
(*                                                                         *)
(* Numbers: confidences and risk scores are in tenths (10 = 1.0); scores   *)
(* are exact rationals [num, den].                                         *)
(***************************************************************************)
EXTENDS Integers, Sequences, FiniteSets, TLC

VARIABLES
  predictionHistory,    \* AIService.predictionHistory
  recorded,             \* every entry ever handed to recordPrediction, in order
  model,                \* BaseModel.model # null, per model instance
  isLoaded,             \* BaseModel.isLoaded, per model instance
  artifact,             \* models/saved/<name>/model.json: "none", "ok" (saved
                        \* by this process or a former one), "corrupt",
                        \* "imported" (copied in by importModels)
  fits,                 \* per model: train() calls between fit start and return
  loads,                \* per model: initialize() calls waiting in loadModel
  tasks,                \* executions of AIService.initialize / trainAllModels
  serviceInitialized,   \* aiRoutes.ts serviceInitialized
  initializationError,  \* aiRoutes.ts initializationError # null
  reqs,                 \* HTTP requests to the /ai router
  performanceMetrics,   \* AIService.performanceMetrics
  metricsFile,          \* models/performance-metrics.json
  calc,                 \* a numeric computation: its arguments and its result
  ret                   \* what the last step did and returned

vars == <<predictionHistory, recorded, model, isLoaded, artifact, fits, loads,
          tasks, serviceInitialized, initializationError, reqs,
          performanceMetrics, metricsFile, calc, ret>>

-----------------------------------------------------------------------------
(* Bounds of the model.                                                    *)

\* predictionHistory keeps the last HistoryCap entries (1000 in
\* AIService.ts:309-310, scaled down).
HistoryCap == 4
\* evaluateModels looks at the last EvalWindow entries (100 in
\* AIService.ts:265, scaled down).
EvalWindow == 3
\* recordPrediction calls explored from a ready service (SpecHist).
MaxRecorded == 5
\* HTTP requests explored (Spec).
MaxRequests == 1
\* prediction calls explored through the class interface (SpecApi).
MaxApiCalls == 1
\* prediction calls explored before initialize() is run again (SpecRetrain).
MaxRetrainCalls == 3

-----------------------------------------------------------------------------
(* Constants of the program.                                               *)

Route == "route-optimizer"
Fuel == "fuel-predictor"
Maintenance == "maintenance-forecaster"

\* the order of the literal array in evaluateModels
ModelNames == <<Route, Fuel, Maintenance>>
Models == {ModelNames[i] : i \in 1..Len(ModelNames)}

Rat(n, d) == [num |-> n, den |-> d]
RatLess(a, b) == a.num * b.den < b.num * a.den
RatEq(a, b) == a.num * b.den = b.num * a.den

\* config.performanceThreshold: 0.8
performanceThreshold == Rat(8, 10)
\* config.autoTrainModels: true (getAIService() passes no config)
autoTrainModels == TRUE
\* the default score of evaluateModels: 0.5
DefaultScore == Rat(5, 10)

\* An input record: well formed, with the confidence and the risk score (in
\* tenths) the network computes for it, or malformed (preprocessInput throws
\* on it).  The HTTP handlers' own field checks (status 400) touch no state
\* and are left out: the inputs are those that reach the AIService.
NoInput == [valid |-> FALSE, confidence |-> 0, risk |-> 0]
Inputs ==
  { [valid |-> TRUE, confidence |-> 2, risk |-> 10],
    [valid |-> TRUE, confidence |-> 10, risk |-> 2],
    NoInput }

-----------------------------------------------------------------------------
(* The prediction history.                                                 *)

\* Array.prototype.slice(-k)
slice(s, k) == SubSeq(s, (IF Len(s) > k THEN Len(s) - k ELSE 0) + 1, Len(s))

Entry(modelName, confidence, success) ==
  [modelName |-> modelName, confidence |-> confidence, success |-> success]

\* a faulty variant of recordPrediction: drops the newest entries at the cap
recordPredictionKeepOldest(h, modelName, confidence, success) ==
  LET pushed == Append(h, Entry(modelName, confidence, success))
  IN  IF Len(pushed) > HistoryCap THEN SubSeq(pushed, 1, HistoryCap) ELSE pushed

\* AIService.recordPrediction
recordPrediction(h, modelName, confidence, success) ==
  LET pushed == Append(h, Entry(modelName, confidence, success))
  IN  IF Len(pushed) > HistoryCap THEN slice(pushed, HistoryCap) ELSE pushed

RECURSIVE SumConfidence(_)
SumConfidence(s) ==
  IF s = <<>> THEN 0 ELSE s[1].confidence + SumConfidence(Tail(s))

OfModel(h, m) == SelectSeq(h, LAMBDA p : p.modelName = m)
Successes(h) == SelectSeq(h, LAMBDA p : p.success)

\* successRate * 0.7 + avgConfidence * 0.3 over a non-empty list of entries
Score(modelPredictions) ==
  Rat(70 * Len(Successes(modelPredictions)) + 3 * SumConfidence(modelPredictions),
      100 * Len(modelPredictions))

\* a faulty variant of evaluateModels: default score 0
evaluateModelsZeroDefault(h) ==
  LET recentPredictions == slice(h, EvalWindow)
  IN  [m \in Models |->
         LET modelPredictions == OfModel(recentPredictions, m)
         IN  IF Len(modelPredictions) > 0 THEN Score(modelPredictions) ELSE Rat(0, 1)]

\* AIService.evaluateModels
evaluateModels(h) ==
  LET recentPredictions == slice(h, EvalWindow)
  IN  [m \in Models |->
         LET modelPredictions == OfModel(recentPredictions, m)
         IN  IF Len(modelPredictions) > 0 THEN Score(modelPredictions) ELSE DefaultScore]

\* A ModelPerformanceMetrics entry, as far as it depends on the history
\* (precision, recall and f1Score are fixed multiples of accuracy); set: the
\* Map has an entry for the model.
NoMetrics ==
  [m \in Models |-> [set |-> FALSE, accuracy |-> DefaultScore, predictionCount |-> 0,
                     averageConfidence |-> Rat(0, 1)]]
NoFile == [exists |-> FALSE, metrics |-> NoMetrics]

\* the entries updatePerformanceMetrics sets (lines 335-356)
Metrics(h) ==
  LET evaluations == evaluateModels(h)
  IN  [m \in Models |->
         LET recentPredictions == slice(OfModel(h, m), EvalWindow)
         IN  [set |-> TRUE, accuracy |-> evaluations[m],
              predictionCount |-> Len(recentPredictions),
              averageConfidence |->
                IF Len(recentPredictions) > 0
                THEN Rat(SumConfidence(recentPredictions), 10 * Len(recentPredictions))
                ELSE Rat(0, 1)]]

-----------------------------------------------------------------------------
(* Numbers of the prediction path.  A JavaScript number is a finite value  *)
(* (an exact fraction num/den, den > 0), NaN or an infinity (num: sign).   *)

Fin(n, d) == [k |-> "fin", num |-> n, den |-> d]
NaN == [k |-> "nan", num |-> 0, den |-> 1]
Infinity(sign) == [k |-> "inf", num |-> sign, den |-> 1]
Zero == Fin(0, 1)
One == Fin(1, 1)

isNaN(x) == x.k = "nan"
isFinite(x) == x.k = "fin"
Sign(n) == IF n > 0 THEN 1 ELSE IF n < 0 THEN -1 ELSE 0

\* a < b; every comparison with NaN is false
Lt(a, b) ==
  CASE isNaN(a) \/ isNaN(b) -> FALSE
    [] isFinite(a) /\ isFinite(b) -> a.num * b.den < b.num * a.den
    [] isFinite(a) -> b.num > 0
    [] isFinite(b) -> a.num < 0
    [] OTHER -> a.num < b.num
\* a === b
Same(a, b) ==
  CASE isNaN(a) \/ isNaN(b) -> FALSE
    [] isFinite(a) /\ isFinite(b) -> a.num * b.den = b.num * a.den
    [] OTHER -> a.k = b.k /\ a.num = b.num

\* Math.max and Math.min of two numbers: NaN when either is NaN
MathMax(a, b) == IF isNaN(a) \/ isNaN(b) THEN NaN ELSE IF Lt(a, b) THEN b ELSE a
MathMin(a, b) == IF isNaN(a) \/ isNaN(b) THEN NaN ELSE IF Lt(b, a) THEN b ELSE a

\* a - b
Minus(a, b) ==
  CASE isNaN(a) \/ isNaN(b) -> NaN
    [] isFinite(a) /\ isFinite(b) -> Fin(a.num * b.den - b.num * a.den, a.den * b.den)
    [] isFinite(a) -> Infinity(-b.num)
    [] isFinite(b) -> a
    [] OTHER -> IF a.num = b.num THEN NaN ELSE a

\* a + b
Plus(a, b) ==
  CASE isNaN(a) \/ isNaN(b) -> NaN
    [] isFinite(a) /\ isFinite(b) -> Fin(a.num * b.den + b.num * a.den, a.den * b.den)
    [] isFinite(a) -> b
    [] isFinite(b) -> a
    [] OTHER -> IF a.num = b.num THEN a ELSE NaN

\* a / b: 0/0 is NaN, x/0 an infinity with the sign of x (the divisors here
\* are outputs of the network, which are not negative zeros)
Over(a, b) ==
  CASE isNaN(a) \/ isNaN(b) -> NaN
    [] isFinite(a) /\ isFinite(b) ->
         IF b.num = 0
         THEN IF a.num = 0 THEN NaN ELSE Infinity(Sign(a.num))
         ELSE Fin(Sign(b.num) * a.num * b.den, Sign(b.num) * a.den * b.num)
    [] isFinite(a) -> Zero
    [] isFinite(b) -> Infinity(IF b.num < 0 THEN -a.num ELSE a.num)
    [] OTHER -> NaN

RECURSIVE MaxOf(_), MinOf(_)
\* Math.max(...values), Math.min(...values)
MaxOf(values) ==
  IF Len(values) = 1 THEN values[1] ELSE MathMax(values[1], MaxOf(Tail(values)))
MinOf(values) ==
  IF Len(values) = 1 THEN values[1] ELSE MathMin(values[1], MinOf(Tail(values)))

\* BaseModel.calculateConfidence
calculateConfidence(values) ==
  LET max == MaxOf(values)
      min == MinOf(values)
      range == Minus(max, min)
  IN  MathMax(Zero, MathMin(One, Minus(One, Over(range, max))))

-----------------------------------------------------------------------------
(* The program state as a record, and what a step reports.                 *)

NoPredict ==
  [done |-> FALSE, model |-> "", ready |-> FALSE, inferred |-> FALSE,
   training |-> FALSE, error |-> "", threw |-> "", confidence |-> 0,
   weatherRiskScore |-> 0]
NoEvaluation == [done |-> FALSE, scores |-> [m \in Models |-> DefaultScore]]
NoCheck == [done |-> FALSE, needsTraining |-> FALSE, started |-> {}]
NoFinish == [done |-> FALSE, task |-> <<"", 0>>, ok |-> FALSE, cause |-> ""]
NoHttp == [done |-> FALSE, req |-> 0, status |-> 0, attempted |-> FALSE, unread |-> FALSE]

\* ret.predict: the AIService prediction operation of this step;
\* ret.evaluation: the scores evaluateModels returned in this step;
\* ret.check: the decision of checkAndTrainModels in this step;
\* ret.finish: the AIService.initialize / trainAllModels execution that
\*   settled in this step;
\* ret.http: the response sent in this step (unread: a handler was reached
\*   in a probe of the step, see Step).
Quiet ==
  [predict |-> NoPredict, evaluation |-> NoEvaluation, check |-> NoCheck,
   finish |-> NoFinish, http |-> NoHttp]

State ==
  [predictionHistory |-> predictionHistory, recorded |-> recorded,
   model |-> model, isLoaded |-> isLoaded, artifact |-> artifact,
   fits |-> fits, loads |-> loads, tasks |-> tasks,
   serviceInitialized |-> serviceInitialized,
   initializationError |-> initializationError, reqs |-> reqs,
   performanceMetrics |-> performanceMetrics, metricsFile |-> metricsFile,
   ret |-> Quiet]

Becomes(s) ==
  /\ predictionHistory' = s.predictionHistory
  /\ recorded' = s.recorded
  /\ model' = s.model
  /\ isLoaded' = s.isLoaded
  /\ artifact' = s.artifact
  /\ fits' = s.fits
  /\ loads' = s.loads
  /\ tasks' = s.tasks
  /\ serviceInitialized' = s.serviceInitialized
  /\ initializationError' = s.initializationError
  /\ reqs' = s.reqs
  /\ performanceMetrics' = s.performanceMetrics
  /\ metricsFile' = s.metricsFile
  /\ calc' = calc
  /\ ret' = s.ret

-----------------------------------------------------------------------------
(* BaseModel and the three domain models.                                  *)

NotLoaded == "Model not loaded"
BadInput == "Invalid input"
LoadFailed == "Failed to load model"

Ready(s, m) == s.model[m] /\ s.isLoaded[m]

\* The outcome of a model call: error = "" when it returned normally.
Outcome(ready, inferred, error, input) ==
  [ready |-> ready, inferred |-> inferred, error |-> error,
   confidence |-> IF error = "" THEN input.confidence ELSE 0,
   weatherRiskScore |-> IF error = "" THEN input.risk ELSE 0]

\* BaseModel.predict, as called by the domain methods
predict(s, m, input, wasReady) ==
  IF ~Ready(s, m) THEN Outcome(wasReady, FALSE, NotLoaded, input)
  ELSE IF ~input.valid THEN Outcome(wasReady, FALSE, BadInput, input)
  ELSE Outcome(wasReady, TRUE, "", input)

\* RouteOptimizerModel.optimizeRoute
routeOptimizerOptimizeRoute(s, input) ==
  [s |-> s, out |-> predict(s, Route, input, Ready(s, Route))]

\* FuelPredictorModel.predictFuelConsumption
fuelPredictorPredictFuelConsumption(s, input) ==
  [s |-> s, out |-> predict(s, Fuel, input, Ready(s, Fuel))]

\* BaseModel.initialize run to completion: a model.json on disk is loaded
\* (loadModel throws on a corrupt one), otherwise a fresh model is built.
initializeModelNow(s, m) ==
  IF s.artifact[m] = "corrupt"
  THEN [s |-> s, ok |-> FALSE]
  ELSE [s |-> [s EXCEPT !.model[m] = TRUE, !.isLoaded[m] = TRUE], ok |-> TRUE]

\* MaintenanceForecasterModel.predictMaintenance: initializes the model
\* itself when it is not loaded.  (The load inside waits for file I/O; the
\* model takes it in the same step.)
maintenanceForecasterPredictMaintenance(s, input) ==
  LET wasReady == Ready(s, Maintenance)
      i == IF wasReady THEN [s |-> s, ok |-> TRUE]
           ELSE initializeModelNow(s, Maintenance)
  IN  IF ~i.ok
      THEN [s |-> i.s, out |-> Outcome(wasReady, FALSE, LoadFailed, input)]
      ELSE [s |-> i.s, out |-> predict(i.s, Maintenance, input, wasReady)]

\* BaseModel.dispose
disposeModel(s, m) ==
  IF s.model[m] THEN [s EXCEPT !.model[m] = FALSE, !.isLoaded[m] = FALSE] ELSE s

-----------------------------------------------------------------------------
(* AIService: the prediction operations.                                   *)

\* one call of this.recordPrediction(...)
record(s, modelName, confidence, success) ==
  [s EXCEPT
     !.predictionHistory = recordPrediction(@, modelName, confidence, success),
     !.recorded = Append(@, Entry(modelName, confidence, success))]

Report(s, m, out, threw) ==
  [s EXCEPT !.ret.predict =
     [done |-> TRUE, model |-> m, ready |-> out.ready, inferred |-> out.inferred,
      training |-> out.inferred /\ s.fits[m] > 0, error |-> out.error,
      threw |-> threw, confidence |-> out.confidence,
      weatherRiskScore |-> out.weatherRiskScore]]

\* a faulty variant of wrap: a thrown error is neither recorded nor rethrown
wrapSwallow(s, m, out, confidence) ==
  IF out.error = ""
  THEN Report(record(s, m, confidence, TRUE), m, out, "")
  ELSE Report(s, m, out, "")

\* the try/catch common to optimizeRoute, predictFuelConsumption and
\* predictMaintenance: record the outcome, rethrow the error
wrap(s, m, out, confidence) ==
  IF out.error = ""
  THEN Report(record(s, m, confidence, TRUE), m, out, "")
  ELSE Report(record(s, m, 0, FALSE), m, out, out.error)

\* AIService.optimizeRoute
optimizeRoute(s, input) ==
  LET c == routeOptimizerOptimizeRoute(s, input)
  IN  wrap(c.s, Route, c.out, c.out.weatherRiskScore)

\* AIService.predictFuelConsumption
predictFuelConsumption(s, input) ==
  LET c == fuelPredictorPredictFuelConsumption(s, input)
  IN  wrap(c.s, Fuel, c.out, c.out.confidence)

\* AIService.predictMaintenance
predictMaintenance(s, input) ==
  LET c == maintenanceForecasterPredictMaintenance(s, input)
  IN  wrap(c.s, Maintenance, c.out, c.out.confidence)

predictOp(s, m, input) ==
  CASE m = Route -> optimizeRoute(s, input)
    [] m = Fuel -> predictFuelConsumption(s, input)
    [] m = Maintenance -> predictMaintenance(s, input)

\* AIService.evaluateModels, as an operation
evaluateOp(s) ==
  [s EXCEPT !.ret.evaluation = [done |-> TRUE, scores |-> evaluateModels(s.predictionHistory)]]

\* AIService.dispose
dispose(s) == disposeModel(disposeModel(disposeModel(s, Route), Fuel), Maintenance)

-----------------------------------------------------------------------------
(* Executions of AIService.initialize and AIService.trainAllModels.        *)

Reqs == 1..MaxRequests

\* the artifacts tf.loadLayersModel accepts
Loadable == {"ok", "imported"}

Startup == <<"startup", 0>>       \* initializeService() at module load
Mw(r) == <<"mw", r>>              \* initializeService() awaited by request r
Bg(r) == <<"bg", r>>              \* trainAllModels() started by request r
ApiInit == <<"api", 0>>           \* initialize() called on the class directly
Import == <<"import", 0>>         \* initialize() called by importModels
TaskIds == {Startup, ApiInit, Import} \cup {Mw(r) : r \in Reqs} \cup {Bg(r) : r \in Reqs}
IsInit(t) == t[1] \in {"startup", "mw", "api", "import"}

\* pc: "idle" (not started), "models" (awaiting the three model.initialize()),
\* "fit" (awaiting the three model.train()), "done"; wait: the models whose
\* promise the execution still awaits.
IdleTask == [pc |-> "idle", wait |-> {}]
DoneTask == [pc |-> "done", wait |-> {}]

\* pc: "none" (not yet sent), "waitInit" (in checkServiceStatus, awaiting
\* initializeService), "done" (answered; the answer is in ret.http);
\* attempted: checkServiceStatus called initializeService() for it.
NoReq == [pc |-> "none", attempted |-> FALSE]
DoneReq == [pc |-> "done", attempted |-> FALSE]

\* The route and the body of a request.  Nothing reads them before the
\* request's handler runs, so the model draws them in the step that runs it.
NoBody == [kind |-> "", input |-> NoInput]
Bodies ==
  [kind : Models, input : Inputs]
    \cup {[kind |-> "train", input |-> NoInput], [kind |-> "evaluate", input |-> NoInput]}

\* res.status(...).json(...)
respond(s, r, status) ==
  [s EXCEPT !.reqs[r] = DoneReq,
            !.ret.http = [done |-> TRUE, req |-> r, status |-> status,
                          attempted |-> s.reqs[r].attempted, unread |-> FALSE]]

Settle(s, t, ok, cause) ==
  [s EXCEPT !.tasks[t] = DoneTask,
            !.ret.finish = [done |-> TRUE, task |-> t, ok |-> ok, cause |-> cause]]

\* BaseModel.train up to its await of model.fit, for the three models
\* (trainAllModels, lines 199-213): a train() on a model that is null throws
\* at once, which rejects the Promise.all while the other fits go on.
trainStart(s, t) ==
  LET able == {m \in Models : s.model[m]}
      s1 == [s EXCEPT !.fits = [m \in Models |-> IF m \in able THEN @[m] + 1 ELSE @[m]]]
  IN  IF able = Models
      THEN [s |-> [s1 EXCEPT !.tasks[t] = [pc |-> "fit", wait |-> Models]],
            failed |-> FALSE, started |-> able]
      ELSE [s |-> s1, failed |-> TRUE, started |-> able]

\* AIService.trainAllModels up to its first wait, called on the class
trainAllModels(s, t) ==
  LET tr == trainStart(s, t)
  IN  IF tr.failed THEN Settle(tr.s, t, FALSE, "train") ELSE tr.s

\* POST /models/train: starts trainAllModels and answers 202 without awaiting
trainHandler(s, r) ==
  LET tr == trainStart(s, Bg(r))
      s1 == IF tr.failed THEN Settle(tr.s, Bg(r), FALSE, "train") ELSE tr.s
  IN  respond(s1, r, 202)

\* the route handlers behind checkServiceStatus
handler(s, r, body) ==
  CASE body.kind \in Models ->
         LET s1 == predictOp(s, body.kind, body.input)
         IN  respond(s1, r, IF s1.ret.predict.threw = "" THEN 200 ELSE 500)
    [] body.kind = "train" -> trainHandler(s, r)
    [] body.kind = "evaluate" -> respond(evaluateOp(s), r, 200)
    [] OTHER -> [s EXCEPT !.ret.http.unread = TRUE]

\* initializeService after its await (lines 15-20)
initializeServiceDone(s, ok) ==
  IF ok THEN [s EXCEPT !.serviceInitialized = TRUE]
        ELSE [s EXCEPT !.initializationError = TRUE]

\* checkServiceStatus after its await (lines 38-52)
checkServiceStatusResume(s, r, body) ==
  IF ~s.serviceInitialized THEN respond(s, r, 503) ELSE handler(s, r, body)

\* AIService.initialize returns (ok) or throws, and its caller goes on
initFinished(s, t, ok, cause, body) ==
  LET s1 == Settle(s, t, ok, cause)
  IN  CASE t[1] = "startup" -> initializeServiceDone(s1, ok)
        [] t[1] = "mw" ->
             checkServiceStatusResume(initializeServiceDone(s1, ok), t[2], body)
        [] OTHER -> s1

\* AIService.loadPerformanceMetrics: the entries of the file replace those
\* of the Map
loadPerformanceMetrics(s) ==
  IF s.metricsFile.exists
  THEN [s EXCEPT !.performanceMetrics =
          [m \in Models |-> IF s.metricsFile.metrics[m].set
                            THEN s.metricsFile.metrics[m] ELSE @[m]]]
  ELSE s

\* AIService.updatePerformanceMetrics with savePerformanceMetrics
updatePerformanceMetrics(s) ==
  LET metrics == Metrics(s.predictionHistory)
  IN  [s EXCEPT !.performanceMetrics = metrics,
                !.metricsFile = [exists |-> TRUE, metrics |-> metrics]]

\* a faulty variant of trainFinished: the metrics are updated after a failed
\* training as well
trainFinishedAlwaysUpdates(s, t, ok, body) ==
  LET s1 == updatePerformanceMetrics(s)
  IN  IF IsInit(t) THEN initFinished(s1, t, ok, IF ok THEN "" ELSE "train", body)
      ELSE Settle(s1, t, ok, IF ok THEN "" ELSE "train")

\* AIService.trainAllModels after its Promise.all: it updates the metrics
\* and returns (ok), or throws; its caller goes on: checkAndTrainModels and
\* initialize pass the error on unchanged.
trainFinished(s, t, ok, body) ==
  LET s1 == IF ok THEN updatePerformanceMetrics(s) ELSE s
  IN  IF IsInit(t) THEN initFinished(s1, t, ok, IF ok THEN "" ELSE "train", body)
      ELSE Settle(s1, t, ok, IF ok THEN "" ELSE "train")

\* a faulty variant of needsTraining: every score below the threshold
needsTrainingEvery(evaluations) ==
  \A m \in Models : RatLess(evaluations[m], performanceThreshold)

\* checkAndTrainModels, lines 290-292
needsTraining(evaluations) ==
  \E m \in Models : RatLess(evaluations[m], performanceThreshold)

\* AIService.checkAndTrainModels, up to the await of the trainings
checkAndTrainModels(s, t) ==
  LET evaluations == evaluateModels(s.predictionHistory)
  IN  IF needsTraining(evaluations)
      THEN LET tr == trainStart(s, t)
           IN  [s |-> [tr.s EXCEPT !.ret.check =
                         [done |-> TRUE, needsTraining |-> TRUE, started |-> tr.started]],
                state |-> IF tr.failed THEN "err" ELSE "pending"]
      ELSE [s |-> [s EXCEPT !.ret.check =
                     [done |-> TRUE, needsTraining |-> FALSE, started |-> {}]],
            state |-> "ok"]

\* AIService.initialize after the three models are initialized (lines 80-88)
afterModels(s, t, body) ==
  LET s1 == loadPerformanceMetrics(s)
  IN  IF autoTrainModels
      THEN LET c == checkAndTrainModels(s1, t)
           IN  CASE c.state = "pending" -> c.s
                 [] c.state = "ok" -> initFinished(c.s, t, TRUE, "", body)
                 [] c.state = "err" -> initFinished(c.s, t, FALSE, "train", body)
      ELSE initFinished(s1, t, TRUE, "", body)

\* AIService.initialize up to its first wait (lines 69-78).  BaseModel.initialize
\* builds a fresh model at once when there is no model.json, and waits for
\* loadModel when there is one.
initializeStart(s, t, body) ==
  LET toLoad == {m \in Models : s.artifact[m] # "none"}
      s1 == [s EXCEPT
               !.model = [m \in Models |-> IF m \in toLoad THEN @[m] ELSE TRUE],
               !.isLoaded = [m \in Models |-> IF m \in toLoad THEN @[m] ELSE TRUE],
               !.loads = [m \in Models |-> IF m \in toLoad THEN @[m] + 1 ELSE @[m]],
               !.tasks[t] = [pc |-> "models", wait |-> toLoad]]
  IN  IF toLoad = {} THEN afterModels(s1, t, body) ELSE s1

\* loadModel of model m settles for execution t (BaseModel.initialize,
\* lines 625-651): a failed load rejects the Promise.all of the execution.
loadDone(s, t, m, body) ==
  LET s1 == [s EXCEPT !.loads[m] = @ - 1]
      rest == s.tasks[t].wait \ {m}
  IN  IF s.artifact[m] \in Loadable
      THEN LET s2 == [s1 EXCEPT !.model[m] = TRUE, !.isLoaded[m] = TRUE,
                                !.tasks[t].wait = rest]
           IN  IF rest = {} THEN afterModels(s2, t, body) ELSE s2
      ELSE initFinished(s1, t, FALSE, "load", body)

\* model.fit and saveModel of model m settle for execution t (BaseModel.train,
\* lines 694-733): ok when both succeeded.
fitDone(s, t, m, ok, body) ==
  LET s1 == [s EXCEPT !.fits[m] = @ - 1]
      rest == s.tasks[t].wait \ {m}
  IN  IF ok
      THEN LET s2 == [s1 EXCEPT !.artifact[m] = "ok", !.tasks[t].wait = rest]
           IN  IF rest = {} THEN trainFinished(s2, t, TRUE, body) ELSE s2
      ELSE trainFinished(s1, t, FALSE, body)

\* the same for a load or a fit whose execution has already been rejected
Awaited(s, pc, m) ==
  Cardinality({t \in TaskIds : s.tasks[t].pc = pc /\ m \in s.tasks[t].wait})

orphanLoadDone(s, m) ==
  IF s.artifact[m] \in Loadable
  THEN [s EXCEPT !.loads[m] = @ - 1, !.model[m] = TRUE, !.isLoaded[m] = TRUE]
  ELSE [s EXCEPT !.loads[m] = @ - 1]

orphanFitDone(s, m, ok) ==
  IF ok THEN [s EXCEPT !.fits[m] = @ - 1, !.artifact[m] = "ok"]
        ELSE [s EXCEPT !.fits[m] = @ - 1]

\* AIService.importModels of a directory that holds the three saved models
\* and no performance-metrics.json (lines 441-460): the saved models replace
\* those of the storage directory, then initialize() runs; its outcome is
\* that of importModels (lines 462-466)
importModels(s) ==
  initializeStart([s EXCEPT !.artifact = [m \in Models |-> "imported"]], Import, NoBody)

\* a faulty variant of checkServiceStatus: retries despite a retained error
checkServiceStatusRetry(s, r, body) ==
  IF ~s.serviceInitialized
  THEN initializeStart([s EXCEPT !.reqs[r] = [pc |-> "waitInit", attempted |-> TRUE]],
                       Mw(r), body)
  ELSE handler(s, r, body)

\* checkServiceStatus up to its await (lines 27-37)
checkServiceStatus(s, r, body) ==
  IF ~s.serviceInitialized
  THEN IF s.initializationError
       THEN respond(s, r, 503)
       ELSE initializeStart([s EXCEPT !.reqs[r] = [pc |-> "waitInit", attempted |-> TRUE]],
                            Mw(r), body)
  ELSE handler(s, r, body)

-----------------------------------------------------------------------------
(* The numeric path of a prediction: preprocessInput, the network, the     *)
(* confidence and the estimates of the three domain operations.            *)

\* How an input stands to the fields its feature vector is computed from:
\* all present; a scalar absent (ship.age, shipSpecs.maxSpeed,
\* voyage.duration, ...: the feature is undefined / c = NaN); an object
\* absent (ship, weatherConditions, ...).
Complete == "complete"
NoScalar == "scalar missing"
NoObject == "object missing"
InputShapes == {Complete, NoScalar, NoObject}

TypeError == "TypeError"
InvalidValues == "Invalid prediction values"

\* preprocessInput of the three models: it throws, or returns a feature
\* vector (finite: no component is NaN).  Only the maintenance model checks
\* that its objects are present; no model checks a scalar.
preprocessInput(m, input) ==
  CASE input = NoObject ->
         [threw |-> IF m = Maintenance THEN BadInput ELSE TypeError, finite |-> FALSE]
    [] input = NoScalar -> [threw |-> "", finite |-> FALSE]
    [] OTHER -> [threw |-> "", finite |-> TRUE]

\* config.outputShape
outputShape(m) == CASE m = Route -> 4 [] m = Fuel -> 3 [] m = Maintenance -> 5

\* the activation of the last layer in buildModel
outputActivation(m) == IF m = Fuel THEN "linear" ELSE "sigmoid"

\* 1 / (1 + exp(-z)) in float32, on the pre-activations of PreActivations:
\* exp overflows below -88 (result 0) and 1 + exp(-z) rounds to 1 above 17
Sigmoid(z) ==
  CASE z < -88 -> Zero
    [] z > 17 -> One
    [] z = 0 -> Fin(1, 2)
    [] z < 0 -> Fin(27, 100)
    [] z > 0 -> Fin(73, 100)

\* The pre-activations of the output units that the weights produce for an
\* input: any, since the weights are any.
PreActivations == {-100, -1, 0, 1, 100}

\* model.predict: NaN in the features reaches every output unit
modelPredict(m, finite, z) ==
  [i \in 1..outputShape(m) |->
     IF ~finite THEN NaN
     ELSE IF outputActivation(m) = "sigmoid" THEN Sigmoid(z[i]) ELSE Fin(z[i], 1)]

\* BaseModel.predict on a loaded model (lines 741-760)
predictionResult(m, input, z) ==
  LET features == preprocessInput(m, input)
      prediction == modelPredict(m, features.finite, z)
  IN  IF features.threw # ""
      THEN [error |-> features.threw, fedNaN |-> FALSE, prediction |-> <<>>,
            confidence |-> NaN]
      ELSE [error |-> "", fedNaN |-> ~features.finite, prediction |-> prediction,
            confidence |-> calculateConfidence(prediction)]

\* the baseline of an estimate, computed from a complete input
Baseline == Fin(100, 1)

\* base * (1 + factor * k)
Estimate(name, base, factor, k) ==
  [name |-> name, base |-> base, k |-> k,
   value |-> IF isNaN(factor) \/ isNaN(base) THEN NaN
             ELSE Fin(base.num * (factor.den * k.den + factor.num * k.num),
                      base.den * factor.den * k.den)]

\* a faulty variant of maintenanceType: the corrective test comes first
maintenanceTypeRiskFirst(riskScore, urgencyFactor) ==
  IF Lt(Fin(6, 10), riskScore) THEN "corrective"
  ELSE IF Lt(Fin(9, 10), riskScore) \/ Lt(Fin(9, 10), urgencyFactor) THEN "emergency"
  ELSE "preventive"

\* MaintenanceForecasterModel.predictMaintenance, lines 414-422
maintenanceType(riskScore, urgencyFactor) ==
  IF Lt(Fin(9, 10), riskScore) \/ Lt(Fin(9, 10), urgencyFactor) THEN "emergency"
  ELSE IF Lt(Fin(6, 10), riskScore) THEN "corrective"
  ELSE "preventive"

\* null in place of a Date
NoDate == [k |-> "null", num |-> 0, den |-> 1]

NoOut ==
  [error |-> "", fedNaN |-> FALSE, prediction |-> <<>>, confidence |-> NaN,
   estimates |-> <<>>, maintenanceType |-> "",
   t1 |-> "", t2 |-> "",
   predictions |-> <<>>, logged |-> <<>>, criticalIssues |-> <<>>,
   overall |-> NaN, trend |-> "",
   first |-> <<>>, second |-> <<>>,
   inputs |-> <<>>, outputs |-> <<>>,
   predictedFailureDate |-> NoDate, recommendedMaintenanceDate |-> NoDate]

Failed(p) == [NoOut EXCEPT !.error = p.error, !.fedNaN = p.fedNaN]

\* RouteOptimizerModel.optimizeRoute (lines 129-175)
routeOptimization(input, z) ==
  LET p == predictionResult(Route, input, z)
      base == IF input = Complete THEN Baseline ELSE NaN
  IN  IF p.error # "" THEN Failed(p)
      ELSE [NoOut EXCEPT
              !.fedNaN = p.fedNaN, !.prediction = p.prediction,
              !.confidence = p.confidence,
              !.estimates =
                 << Estimate("estimatedTime", base, p.prediction[1], Rat(5, 10)),
                    Estimate("estimatedFuelConsumption", base, p.prediction[2], Rat(3, 10)) >>]

\* FuelPredictorModel.predictFuelConsumption (lines 580-615)
fuelPrediction(input, z) ==
  LET p == predictionResult(Fuel, input, z)
      base == IF input = Complete THEN Baseline ELSE NaN
  IN  IF p.error # "" THEN Failed(p)
      ELSE [NoOut EXCEPT
              !.fedNaN = p.fedNaN, !.prediction = p.prediction,
              !.confidence = p.confidence,
              !.estimates =
                 << Estimate("mainEngineConsumption", base, p.prediction[1], Rat(5, 10)),
                    Estimate("auxiliaryConsumption", base, p.prediction[2], Rat(3, 10)) >>]

\* MaintenanceForecasterModel.predictMaintenance after the model is loaded
\* (lines 383-450); the baselines of cost and downtime are table entries
maintenancePrediction(input, z) ==
  LET p == predictionResult(Maintenance, input, z)
  IN  IF p.error # "" THEN Failed(p)
      ELSE IF \E i \in 1..5 : isNaN(p.prediction[i])
      THEN Failed([error |-> InvalidValues, fedNaN |-> p.fedNaN])
      ELSE [NoOut EXCEPT
              !.fedNaN = p.fedNaN, !.prediction = p.prediction,
              !.confidence = p.confidence,
              !.maintenanceType = maintenanceType(p.prediction[1], p.prediction[5]),
              !.estimates =
                 << Estimate("estimatedCost", Baseline, p.prediction[3], Rat(5, 10)),
                    Estimate("estimatedDowntime", Baseline, p.prediction[4], Rat(4, 10)) >>]

\* Arithmetic in lowest terms.
RECURSIVE GCD(_, _)
GCD(a, b) == IF b = 0 THEN a ELSE GCD(b, a % b)

\* a finite number in lowest terms
Norm(x) ==
  IF ~isFinite(x) THEN x
  ELSE LET g == GCD(IF x.num < 0 THEN -x.num ELSE x.num, x.den)
       IN  Fin(x.num \div g, x.den \div g)

Dec(n, d) == Norm(Fin(n, d))
Magnitude(n) == IF n < 0 THEN -n ELSE n
\* a + b, a - b, a * b and a / b in lowest terms; the common denominator
\* and the cancelling keep the intermediate integers small
Add(a, b) ==
  IF ~(isFinite(a) /\ isFinite(b)) THEN Plus(a, b)
  ELSE LET l == (a.den \div GCD(a.den, b.den)) * b.den
       IN  Norm(Fin(a.num * (l \div a.den) + b.num * (l \div b.den), l))
Sub(a, b) ==
  IF ~(isFinite(a) /\ isFinite(b)) THEN Minus(a, b)
  ELSE Add(a, Fin(-b.num, b.den))
Mul(a, b) ==
  LET g1 == GCD(Magnitude(a.num), b.den)
      g2 == GCD(Magnitude(b.num), a.den)
  IN  Norm(Fin((a.num \div g1) * (b.num \div g2), (a.den \div g2) * (b.den \div g1)))
Div(a, b) ==
  IF ~(isFinite(a) /\ isFinite(b)) \/ b.num = 0 THEN Over(a, b)
  ELSE Mul(a, Fin(Sign(b.num) * b.den, Magnitude(b.num)))
\* Math.abs, Math.floor of a finite number
Abs(x) == Fin(IF x.num < 0 THEN -x.num ELSE x.num, x.den)
Floor(x) == Fin(x.num \div x.den, 1)

\* component.lastMaintenanceDate of a complete maintenance input (a day)
lastMaintenanceDate == 0

\* The optional and date-typed fields of a maintenance input.  A date field
\* is a valid Date (a day; days before now are negative), an invalid Date, a
\* string (the JSON of the HTTP layer) or absent; maintenanceHistory is
\* absent or an array of entries with a date field each; the sensor histories
\* are arrays or not.
ADate(day) == [kind |-> "date", day |-> day]
InvalidDate == [kind |-> "invalid", day |-> 0]
StringDate == [kind |-> "string", day |-> 0]
NoField == [kind |-> "missing", day |-> 0]
History(entries) == [array |-> TRUE, entries |-> entries]
NoHistory == [array |-> FALSE, entries |-> <<>>]
Fields(shape, lastMaintenance, history, sensorArrays) ==
  [shape |-> shape, lastMaintenanceDate |-> lastMaintenance,
   maintenanceHistory |-> history, sensorArrays |-> sensorArrays]
\* an input with these fields well formed: no maintenance so far
WellFormed(shape) == Fields(shape, ADate(lastMaintenanceDate), History(<<>>), TRUE)

\* the array preprocessInput leaves in component.maintenanceHistory
\* (lines 178-184)
historyArray(fields) ==
  IF fields.maintenanceHistory.array THEN fields.maintenanceHistory.entries ELSE <<>>

\* date.getTime() throws unless date is a Date object
getTimeThrows(date) == date.kind \in {"string", "missing"}

\* calculateAverageMaintenanceInterval (lines 295-307) on the dates of the
\* entries, in days: what it throws, else the interval
RECURSIVE SumIntervals(_)
SumIntervals(history) ==
  IF Len(history) < 2 THEN 0
  ELSE (history[2].day - history[1].day) + SumIntervals(Tail(history))
calculateAverageMaintenanceInterval(history) ==
  IF Len(history) < 2 THEN [threw |-> "", interval |-> Dec(365, 1)]
  ELSE IF \E i \in 1..Len(history) : getTimeThrows(history[i])
  THEN [threw |-> TypeError, interval |-> NaN]
  ELSE IF \E i \in 1..Len(history) : history[i].kind = "invalid"
  THEN [threw |-> "", interval |-> NaN]
  ELSE [threw |-> "", interval |-> Dec(SumIntervals(history), Len(history) - 1)]

\* lines 403-412: the days from now to the predicted failure (null unless
\* riskScore > 0.8) and to the recommended maintenance
predictedDaysToFailure(averageInterval, daysToFailureFactor) ==
  IF isNaN(averageInterval) THEN NaN
  ELSE MathMax(One, Mul(Mul(averageInterval, Dec(12, 10)), Sub(One, daysToFailureFactor)))
recommendedDays(days) ==
  IF isNaN(days) THEN NaN ELSE MathMax(Dec(7, 1), Mul(days, Dec(7, 10)))

\* MaintenanceForecasterModel.predictMaintenance (lines 371-470) on a loaded
\* model: after the prediction and its checks, lastMaintenanceDate is read
\* with ?.getTime() (line 397), the interval of the history is computed
\* (lines 400-402) and generateRecommendations reads
\* lastMaintenanceDate.getTime() (line 558)
datedResult(p, fields, average, days) ==
  IF p.error # "" THEN p
  ELSE IF fields.lastMaintenanceDate.kind = "string" THEN Failed([error |-> TypeError, fedNaN |-> p.fedNaN])
  ELSE IF average.threw # "" THEN Failed([error |-> average.threw, fedNaN |-> p.fedNaN])
  ELSE IF getTimeThrows(fields.lastMaintenanceDate) THEN Failed([error |-> TypeError, fedNaN |-> p.fedNaN])
  ELSE [p EXCEPT
          !.predictedFailureDate =
             IF Lt(Fin(8, 10), p.prediction[1]) THEN days ELSE NoDate,
          !.recommendedMaintenanceDate = recommendedDays(days)]
datedPrediction(p, fields, average) ==
  datedResult(p, fields, average,
              IF p.error # "" THEN NaN
              ELSE predictedDaysToFailure(average.interval, p.prediction[2]))
predictMaintenanceResult(fields, z) ==
  datedPrediction(maintenancePrediction(fields.shape, z), fields,
                  calculateAverageMaintenanceInterval(historyArray(fields)))

\* the days between the maintenances of a history
Intervals == {1, 8, 365}
\* the inputs of predictMaintenance explored: complete but for the optional
\* and date-typed fields
MaintenanceInputs ==
  {Fields(Complete, last, history, arrays) :
     last \in {ADate(lastMaintenanceDate), InvalidDate, StringDate, NoField},
     history \in {NoHistory}
                 \cup {History(entries) :
                         entries \in {<<>>, <<StringDate>>, <<StringDate, StringDate>>}
                                     \cup {<<ADate(-2 * i), ADate(-i)>> : i \in Intervals}},
     arrays \in BOOLEAN}

\* An element of the list given to analyzeFleetHealth: a maintenance input
\* of some shape with the pre-activation of the risk unit the weights give
\* it, an input without its usage object, an input without its ship object,
\* or null.
NoUsage == "usage missing"
NoShip == "ship missing"
Null == "null"
Element(shape, z1) == [shape |-> shape, z1 |-> z1]
FleetElements ==
  {Element(Complete, z1) : z1 \in PreActivations}
  \cup {Element(shape, 0) : shape \in {NoScalar, NoUsage, NoShip, Null}}

\* predictMaintenance on an element of the list
elementPrediction(e) ==
  predictMaintenanceResult(
    WellFormed(IF e.shape \in {NoUsage, NoShip, Null} THEN NoObject ELSE e.shape),
    <<e.z1, 0, 0, 0, 0>>)

\* the argument of logger.warn in the catch block (lines 622-626) reads
\* input.ship.id and input.component.type
warnThrows(e) == e.shape \in {NoShip, Null}

\* a faulty variant of fleetTrend: degrading from a mean risk of one half
fleetTrendFromHalf(avgRisk) ==
  IF Lt(Fin(5, 10), avgRisk) THEN "degrading"
  ELSE IF Lt(avgRisk, Fin(3, 10)) THEN "improving"
  ELSE "stable"

\* lines 637-640
fleetTrend(avgRisk) ==
  IF Lt(Fin(6, 10), avgRisk) THEN "degrading"
  ELSE IF Lt(avgRisk, Fin(3, 10)) THEN "improving"
  ELSE "stable"

RECURSIVE Sum(_)
\* values.reduce((sum, v) => sum + v, 0)
Sum(values) == IF values = <<>> THEN Zero ELSE Add(values[1], Sum(Tail(values)))

RECURSIVE fleetLoop(_, _, _)
\* the loop of analyzeFleetHealth (lines 603-628) from element i on
fleetLoop(inputs, i, acc) ==
  IF i > Len(inputs) THEN acc
  ELSE LET prediction == elementPrediction(inputs[i])
           riskScore == prediction.prediction[1]
       IN  IF prediction.error = ""
           THEN fleetLoop(inputs, i + 1,
                  [acc EXCEPT
                     !.predictions = Append(@, riskScore),
                     !.criticalIssues =
                        IF Lt(Fin(8, 10), riskScore) THEN Append(@, i) ELSE @])
           ELSE IF warnThrows(inputs[i])
           THEN [acc EXCEPT !.error = TypeError]
           ELSE fleetLoop(inputs, i + 1, [acc EXCEPT !.logged = Append(@, i)])

\* MaintenanceForecasterModel.analyzeFleetHealth (lines 598-648), which
\* AIService.analyzeFleetHealth passes on (lines 175-193)
analyzeFleetHealth(inputs) ==
  LET acc == fleetLoop(inputs, 1, NoOut)
      n == Fin(Len(acc.predictions), 1)
      overallHealth ==
        IF Len(acc.predictions) > 0
        THEN Div(Sum([j \in 1..Len(acc.predictions) |-> Sub(One, acc.predictions[j])]), n)
        ELSE One
      avgRisk == Div(Sum(acc.predictions), n)
  IN  IF acc.error # "" THEN acc
      ELSE [acc EXCEPT !.overall = overallHealth, !.trend = fleetTrend(avgRisk)]

\* the longest list given to analyzeFleetHealth
MaxFleet == 3

FleetInputs == UNION {[1..n -> FleetElements] : n \in 0..MaxFleet}

\* The clock: Date.now() and new Date() in days since the start of a
\* (non-leap) year; the latest day of a computation is MaxDay.
MaxDay == 31
Days == 0..MaxDay

\* the day each month starts on, and Date.prototype.getMonth
MonthStarts == <<0, 31, 59, 90, 120, 151, 181, 212, 243, 273, 304, 334, 365>>
getMonth(day) ==
  CHOOSE k \in 0..11 : MonthStarts[k + 1] <= day % 365 /\ day % 365 < MonthStarts[k + 2]

\* Math.sin(month * Math.PI / 6), in hundredths
seasonalFactor(month) ==
  Fin(<<0, 50, 87, 100, 87, 50, 0, -50, -87, -100, -87, -50>>[month + 1], 100)

\* validateDate of preprocessInput (lines 215-220): a Date that is absent or
\* invalid is replaced by the current one
validateDate(valid, date, now) == IF valid THEN date ELSE now

\* The components of a feature vector that are computed from the clock
\* (the others are arithmetic on the fields of the record): the seasonal
\* factor of the route model (RouteOptimizerModel.ts:118), the days since
\* the last maintenance over 365 of the maintenance model
\* (MaintenanceForecasterModel.ts:229-231, 247), none in the fuel model.
clockFeatures(m, input, now) ==
  CASE m = Route -> <<seasonalFactor(getMonth(now))>>
    [] m = Fuel -> <<>>
    [] m = Maintenance ->
         <<Fin(now - validateDate(input = Complete, lastMaintenanceDate, now), 365)>>

\* preprocessInput of a record at a time: what it throws, else the feature
\* vector as the record it was computed from and its clock components
encode(m, input, now) ==
  LET features == preprocessInput(m, input)
  IN  IF features.threw # "" THEN [threw |-> features.threw, record |-> "", clock |-> <<>>]
      ELSE [threw |-> "", record |-> input, clock |-> clockFeatures(m, input, now)]

\* risk scores and urgency factors, in hundredths, around the two thresholds
Levels == {0, 60, 61, 90, 91, 100}

NoCalc ==
  [op |-> "none", m |-> "", input |-> Complete, z |-> <<>>,
   r1 |-> 0, r2 |-> 0, u |-> 0, fleet |-> <<>>, now1 |-> 0, now2 |-> 0,
   sampleSize |-> 0, fields |-> WellFormed(Complete), done |-> FALSE, out |-> NoOut]

\* the computations explored: a domain operation on a loaded model, for an
\* input and the pre-activations the weights give it; and the maintenance
\* type of two risk scores under one urgency factor
CalcArgs ==
  {[NoCalc EXCEPT !.op = "predict", !.m = m, !.input = Complete, !.z = z] :
     m \in {Route}, z \in [1..outputShape(Route) -> PreActivations]}
  \cup
  {[NoCalc EXCEPT !.op = "predict", !.m = m, !.input = Complete, !.z = z] :
     m \in {Fuel}, z \in [1..outputShape(Fuel) -> PreActivations]}
  \cup
  {[NoCalc EXCEPT !.op = "predict", !.m = m, !.input = Complete, !.z = z] :
     m \in {Maintenance}, z \in [1..outputShape(Maintenance) -> PreActivations]}
  \cup
  {[NoCalc EXCEPT !.op = "predict", !.m = m, !.input = input,
                  !.z = [i \in 1..outputShape(m) |-> 0]] :
     m \in Models, input \in {NoScalar, NoObject}}
  \cup
  {[NoCalc EXCEPT !.op = "type", !.m = Maintenance, !.r1 = r1, !.r2 = r2, !.u = u] :
     r1 \in Levels, r2 \in Levels, u \in Levels}
  \cup
  {[NoCalc EXCEPT !.op = "encode", !.m = m, !.input = input,
                  !.now1 = now1, !.now2 = now2] :
     m \in Models, input \in {Complete, NoScalar}, now1 \in Days, now2 \in Days}
  \cup
  {[NoCalc EXCEPT !.op = "predict", !.m = Maintenance, !.fields = fields,
                  !.z = <<z1, z2, 0, 0, 0>>] :
     fields \in MaintenanceInputs \ {WellFormed(Complete)},
     z1 \in PreActivations, z2 \in PreActivations}
  \cup
  {[NoCalc EXCEPT !.op = "fleet", !.m = Maintenance, !.fleet = inputs] :
     inputs \in FleetInputs}

-----------------------------------------------------------------------------
(* The process: what is on disk when it starts, and its steps.             *)

InitialDisks ==
  { [m \in Models |-> "none"],
    [m \in Models |-> "ok"],
    [m \in Models |-> IF m = Route THEN "corrupt" ELSE "ok"] }

Fresh(disk) ==
  /\ predictionHistory = <<>>
  /\ recorded = <<>>
  /\ model = [m \in Models |-> FALSE]
  /\ isLoaded = [m \in Models |-> FALSE]
  /\ artifact = disk
  /\ fits = [m \in Models |-> 0]
  /\ loads = [m \in Models |-> 0]
  /\ tasks = [t \in TaskIds |-> IdleTask]
  /\ serviceInitialized = FALSE
  /\ initializationError = FALSE
  /\ reqs = [r \in Reqs |-> NoReq]
  /\ performanceMetrics = NoMetrics
  /\ metricsFile = NoFile
  /\ ret = Quiet

Init == \E disk \in InitialDisks : Fresh(disk) /\ calc = NoCalc

\* A step that may run a request handler: f(body) is the step for a given
\* route and body.  When the step reaches a handler the body is drawn from
\* Bodies, otherwise the step does not depend on it.
Step(f(_)) ==
  LET probe == f(NoBody)
  IN  IF probe.ret.http.unread
      THEN \E body \in Bodies : Becomes(f(body))
      ELSE Becomes(probe)

\* aiRoutes.ts line 24: initializeService() when the module is loaded
StartupInitialize ==
  /\ tasks[Startup].pc = "idle"
  /\ Becomes(initializeStart(State, Startup, NoBody))

\* a request reaches router.use(checkServiceStatus)
Request ==
  \E r \in Reqs :
    /\ tasks[Startup].pc # "idle"
    /\ reqs[r].pc = "none"
    /\ r > 1 => reqs[r - 1].pc # "none"
    /\ Step(LAMBDA body : checkServiceStatus(State, r, body))

LoadDone ==
  \E t \in TaskIds, m \in Models :
    /\ tasks[t].pc = "models"
    /\ m \in tasks[t].wait
    /\ Step(LAMBDA body : loadDone(State, t, m, body))

\* a fit cannot succeed on a model that has been disposed of meanwhile;
\* otherwise fit and save succeed or fail (a tensor error, a full disk)
FitDone ==
  \E t \in TaskIds, m \in Models, ok \in BOOLEAN :
    /\ tasks[t].pc = "fit"
    /\ m \in tasks[t].wait
    /\ ok => model[m]
    /\ Step(LAMBDA body : fitDone(State, t, m, ok, body))

OrphanLoadDone ==
  \E m \in Models :
    /\ loads[m] > Awaited(State, "models", m)
    /\ Becomes(orphanLoadDone(State, m))

OrphanFitDone ==
  \E m \in Models, ok \in BOOLEAN :
    /\ fits[m] > Awaited(State, "fit", m)
    /\ ok => model[m]
    /\ Becomes(orphanFitDone(State, m, ok))

Next ==
  \/ StartupInitialize
  \/ Request
  \/ LoadDone
  \/ FitDone
  \/ OrphanLoadDone
  \/ OrphanFitDone

\* The HTTP service from process start.
Spec == Init /\ [][Next]_vars

-----------------------------------------------------------------------------
(* The AIService class used directly.                                      *)

\* The direct caller runs initialize() again only when no load and no fit
\* is in flight; overlapping executions are explored in Spec.
Calm == \A m \in Models : fits[m] = 0 /\ loads[m] = 0

ApiInitialize ==
  /\ tasks[ApiInit].pc \in {"idle", "done"}
  /\ Calm
  /\ Becomes(initializeStart(State, ApiInit, NoBody))

ApiPredict ==
  \E m \in Models, input \in Inputs :
    /\ Len(recorded) < MaxApiCalls
    /\ Becomes(predictOp(State, m, input))

ApiDispose ==
  /\ \E m \in Models : model[m]
  /\ Becomes(dispose(State))

NextApi ==
  \/ ApiInitialize
  \/ ApiPredict
  \/ ApiDispose
  \/ LoadDone
  \/ FitDone
  \/ OrphanLoadDone
  \/ OrphanFitDone

SpecApi == Init /\ [][NextApi]_vars

-----------------------------------------------------------------------------
(* A ready service.                                                        *)

InitReady ==
  /\ predictionHistory = <<>>
  /\ recorded = <<>>
  /\ model = [m \in Models |-> TRUE]
  /\ isLoaded = [m \in Models |-> TRUE]
  /\ artifact = [m \in Models |-> "ok"]
  /\ fits = [m \in Models |-> 0]
  /\ loads = [m \in Models |-> 0]
  /\ tasks = [t \in TaskIds |-> IF t = Startup THEN DoneTask ELSE IdleTask]
  /\ serviceInitialized = TRUE
  /\ initializationError = FALSE
  /\ reqs = [r \in Reqs |-> NoReq]
  /\ performanceMetrics = NoMetrics
  /\ metricsFile = NoFile
  /\ calc = NoCalc
  /\ ret = Quiet

\* Predictions and evaluations on a ready service.
HistPredict ==
  \E m \in Models, input \in Inputs :
    /\ Len(recorded) < MaxRecorded
    /\ Becomes(predictOp(State, m, input))

HistEvaluateModels ==
  \E s \in {State} : Becomes(evaluateOp(s))

NextHist == HistPredict \/ HistEvaluateModels

SpecHist == InitReady /\ [][NextHist]_vars

\* Predictions of well-formed inputs on a ready service, one more than the
\* window of evaluateModels holds, and then one trainAllModels.
MetricsPredict ==
  \E m \in Models, input \in {i \in Inputs : i.valid} :
    /\ Len(recorded) < EvalWindow + 1
    /\ tasks[Bg(1)].pc = "idle"
    /\ Becomes(predictOp(State, m, input))

TrainAllModels ==
  /\ tasks[Bg(1)].pc = "idle"
  /\ Becomes(trainAllModels(State, Bg(1)))

NextMetrics ==
  \/ MetricsPredict
  \/ TrainAllModels
  \/ FitDone
  \/ OrphanFitDone

SpecMetrics == InitReady /\ [][NextMetrics]_vars

\* Predictions of well-formed inputs on a ready service, and initialize() run
\* again (as importModels does at its end).
RetrainPredict ==
  \E m \in Models, input \in {i \in Inputs : i.valid} :
    /\ Len(recorded) < MaxRetrainCalls
    /\ Becomes(predictOp(State, m, input))

NextRetrain ==
  \/ RetrainPredict
  \/ ApiInitialize
  \/ LoadDone
  \/ FitDone
  \/ OrphanFitDone

SpecRetrain == InitReady /\ [][NextRetrain]_vars

\* Predictions of well-formed inputs on a ready service, and one
\* importModels.
ImportModels ==
  /\ tasks[Import].pc = "idle"
  /\ Becomes(importModels(State))

NextImport ==
  \/ RetrainPredict
  \/ ImportModels
  \/ LoadDone
  \/ FitDone
  \/ OrphanFitDone

SpecImport == InitReady /\ [][NextImport]_vars

-----------------------------------------------------------------------------
(***************************************************************************)
(* The training-data generators of the three models.                       *)
(***************************************************************************)
\* a faulty variant of Clamp: no clamping
ClampNothing(x) == x

\* Math.max(0, Math.min(1, x))
Clamp(x) == MathMax(Zero, MathMin(One, x))

\* element i of a JavaScript array
At(array, i) == array[i + 1]

\* The values Math.random() returns, and the streams of k of them that are
\* explored: every odd draw one value, every even draw another.
Draws == {Zero, Fin(1, 2), Fin(9, 10)}
stream(a, b, k) == [i \in 1..k |-> IF i % 2 = 1 THEN a ELSE b]
RandomStreams(k) == {stream(a, b, k) : a \in Draws, b \in Draws}

\* lo + Math.random() * span
Uniform(lo, span, r) == Add(Dec(lo, 1), Mul(r, Dec(span, 1)))
\* Math.random() > 0.5 ? 1 : 0
Coin(r) == IF Lt(Fin(1, 2), r) THEN One ELSE Zero

\* RouteOptimizerModel.calculateDistance in nautical miles, rounded, on the
\* coordinates the draws give: latitude -90, 0 or 72, longitude -180, 0 or
\* 144
calculateDistance(lat1, lon1, lat2, lon2) ==
  IF lat1 = lat2 /\ (lon1 = lon2 \/ lat1.num = -90) THEN Zero
  ELSE IF lat1.num = -90 \/ lat2.num = -90
  THEN IF lat1.num = 0 \/ lat2.num = 0 THEN Dec(5404, 1) ELSE Dec(9727, 1)
  ELSE IF lat1 = lat2
  THEN IF lat1.num = 0
       THEN IF Abs(Sub(lon1, lon2)).num = 180 THEN Dec(10807, 1)
            ELSE IF Abs(Sub(lon1, lon2)).num = 144 THEN Dec(8646, 1)
            ELSE Dec(2161, 1)
       ELSE IF Abs(Sub(lon1, lon2)).num = 180 THEN Dec(2161, 1)
            ELSE IF Abs(Sub(lon1, lon2)).num = 144 THEN Dec(2053, 1)
            ELSE Dec(658, 1)
  ELSE IF lon1 = lon2 THEN Dec(4323, 1)
  ELSE IF Abs(Sub(lon1, lon2)).num = 180 THEN Dec(6484, 1)
  ELSE IF Abs(Sub(lon1, lon2)).num = 144 THEN Dec(6273, 1)
  ELSE Dec(4534, 1)

\* RouteOptimizerModel.calculateTimeFactor, calculateFuelFactor,
\* calculateRiskScore, calculateRouteEfficiency (lines 379-417)
routeWeather(input) == Div(Add(At(input, 6), At(input, 7)), Dec(2, 1))
calculateTimeFactor(input) ==
  Clamp(Add(Add(Mul(Div(At(input, 4), Dec(35, 1)), Dec(4, 10)),
                Mul(Sub(One, routeWeather(input)), Dec(4, 10))),
            Mul(At(input, 11), Dec(2, 10))))
calculateFuelFactor(input) ==
  Clamp(Add(Add(Mul(Sub(One, At(input, 5)), Dec(3, 10)),
                Mul(Sub(One, routeWeather(input)), Dec(4, 10))),
            Mul(At(input, 10), Dec(3, 10))))
calculateRouteRiskScore(input) ==
  Clamp(Add(Add(Mul(routeWeather(input), Dec(4, 10)),
                Mul(Sub(One, At(input, 8)), Dec(3, 10))),
            Mul(Sub(One, At(input, 12)), Dec(3, 10))))
calculateRouteEfficiency(input) ==
  Clamp(Add(Add(Mul(calculateTimeFactor(input), Dec(35, 100)),
                Mul(calculateFuelFactor(input), Dec(35, 100))),
            Mul(Sub(One, calculateRouteRiskScore(input)), Dec(3, 10))))

\* one iteration of RouteOptimizerModel.generateTrainingData (lines 309-369)
\* with the draws r
routeSample(r) ==
  LET originLat == Uniform(-90, 180, r[1])
      originLon == Uniform(-180, 360, r[2])
      destinationLat == Uniform(-90, 180, r[3])
      destinationLon == Uniform(-180, 360, r[4])
      maxSpeed == Uniform(15, 20, r[5])
      fuelCapacity == Uniform(3000, 4000, r[6])
      cargoCapacity == Uniform(500, 1500, r[7])
      currentCargoWeight == Uniform(0, 1500, r[8])
      windSpeed == Uniform(0, 50, r[9])
      waveHeight == Uniform(0, 10, r[10])
      visibility == Uniform(0, 10, r[11])
      temperature == Uniform(-10, 40, r[12])
      distance == calculateDistance(originLat, originLon, destinationLat, destinationLon)
      input ==
        << originLat, originLon, destinationLat, destinationLon,
           maxSpeed,
           Div(currentCargoWeight, cargoCapacity),
           Div(windSpeed, Dec(50, 1)),
           Div(waveHeight, Dec(10, 1)),
           Div(visibility, Dec(10, 1)),
           Div(temperature, Dec(40, 1)),
           Coin(r[13]), Coin(r[14]), Coin(r[15]),
           Div(distance, Dec(10000, 1)),
           Div(fuelCapacity, Dec(7000, 1)) >>
  IN  [input |-> input,
       output |-> << calculateTimeFactor(input), calculateFuelFactor(input),
                     calculateRouteRiskScore(input), calculateRouteEfficiency(input) >>]

\* FuelPredictorModel.calculateMainEngineConsumption,
\* calculateAuxiliaryConsumption, calculateEfficiencyFactor (lines 773-820)
fuelWeather(input) == Div(Add(At(input, 9), At(input, 11)), Dec(2, 1))
calculateMainEngineConsumption(input) ==
  Clamp(Add(Add(Add(Add(Mul(At(input, 0), Dec(2, 10)),
                        Mul(At(input, 2), Dec(3, 10))),
                    Mul(At(input, 5), Dec(2, 10))),
                Mul(At(input, 18), Dec(2, 10))),
            Mul(fuelWeather(input), Dec(1, 10))))
calculateAuxiliaryConsumption(input) ==
  Clamp(Add(Add(Mul(At(input, 19), Dec(5, 10)),
                Mul(At(input, 14), Dec(3, 10))),
            Mul(At(input, 8), Dec(2, 10))))
calculateEfficiencyFactor(input) ==
  Clamp(Add(Add(Mul(Sub(One, Abs(Sub(Dec(8, 10), At(input, 16)))), Dec(4, 10)),
                Mul(Sub(One, Abs(Sub(Dec(75, 100), At(input, 17)))), Dec(4, 10))),
            Mul(Sub(One, fuelWeather(input)), Dec(2, 10))))

\* one iteration of FuelPredictorModel.generateTrainingData (lines 694-763)
fuelSample(r) ==
  LET distance == Uniform(1000, 4000, r[1])
      duration == Uniform(48, 240, r[2])
      averageSpeed == Uniform(15, 10, r[3])
      length == Uniform(200, 200, r[5])
      beam == Uniform(30, 30, r[6])
      displacement == Uniform(30000, 40000, r[7])
      enginePower == Uniform(15000, 20000, r[8])
      maxSpeed == Uniform(20, 10, r[9])
      cargoWeight == Uniform(20000, 40000, r[10])
      cargoCapacity == Uniform(40000, 30000, r[11])
      windSpeed == Uniform(0, 40, r[12])
      windDirection == Uniform(0, 360, r[13])
      waveHeight == Uniform(0, 8, r[14])
      currentSpeed == Uniform(0, 4, r[15])
      currentDirection == Uniform(0, 360, r[16])
      temperature == Uniform(10, 25, r[17])
      seaState == Floor(Uniform(0, 9, r[18]))
      cruisingSpeed == Mul(maxSpeed, Add(Dec(7, 10), Mul(r[19], Dec(2, 10))))
      loadFactor == Add(Dec(4, 10), Mul(r[20], Dec(5, 10)))
      mainEngineLoad == Add(Dec(5, 10), Mul(r[21], Dec(4, 10)))
      auxiliaryLoad == Add(Dec(3, 10), Mul(r[22], Dec(4, 10)))
      input ==
        << Div(distance, Dec(5000, 1)),
           Div(duration, Dec(288, 1)),
           Div(averageSpeed, Dec(25, 1)),
           Div(length, Dec(400, 1)),
           Div(beam, Dec(60, 1)),
           Div(displacement, Dec(70000, 1)),
           Div(enginePower, Dec(35000, 1)),
           Div(maxSpeed, Dec(30, 1)),
           Div(cargoWeight, cargoCapacity),
           Div(windSpeed, Dec(40, 1)),
           Div(windDirection, Dec(360, 1)),
           Div(waveHeight, Dec(8, 1)),
           Div(currentSpeed, Dec(4, 1)),
           Div(currentDirection, Dec(360, 1)),
           Div(temperature, Dec(35, 1)),
           Div(seaState, Dec(8, 1)),
           Div(cruisingSpeed, maxSpeed),
           loadFactor, mainEngineLoad, auxiliaryLoad >>
  IN  [input |-> input,
       output |-> << calculateMainEngineConsumption(input),
                     calculateAuxiliaryConsumption(input),
                     calculateEfficiencyFactor(input) >>]

\* MaintenanceForecasterModel.calculateRiskScore, calculateDaysToFailure,
\* calculateMaintenanceUrgency, calculateCostFactor, calculateDowntimeFactor
\* (lines 746-801)
Third(a, b, c) == Div(Add(Add(a, b), c), Dec(3, 1))
calculateRiskScore(input) ==
  Clamp(Add(Add(Add(Add(Add(Mul(At(input, 0), Dec(15, 100)),
                            Mul(At(input, 1), Dec(15, 100))),
                        Mul(Div(At(input, 6), Dec(10, 1)), Dec(1, 10))),
                    Mul(At(input, 7), Dec(15, 100))),
                Mul(Third(At(input, 9), At(input, 11), At(input, 13)), Dec(2, 10))),
            Mul(Third(At(input, 20), At(input, 21), At(input, 22)), Dec(25, 100))))
calculateDaysToFailure(input) ==
  Clamp(Add(Add(Add(Sub(One, At(input, 0)),
                    Mul(At(input, 5), Dec(2, 10))),
                Mul(Third(At(input, 10), At(input, 11), At(input, 12)), Dec(3, 10))),
            Mul(Sub(One, Third(At(input, 20), At(input, 21), At(input, 22))), Dec(3, 10))))
calculateMaintenanceUrgency(input) ==
  Clamp(Add(Add(Add(Mul(calculateRiskScore(input), Dec(2, 10)),
                    Mul(At(input, 9), Dec(3, 10))),
                Mul(Third(At(input, 20), At(input, 21), At(input, 22)), Dec(3, 10))),
            Mul(Sub(One, At(input, 5)), Dec(2, 10))))
calculateCostFactor(input) ==
  Clamp(Add(Add(Add(Mul(At(input, 23), Dec(3, 10)),
                    Mul(At(input, 0), Dec(2, 10))),
                Mul(Third(At(input, 10), At(input, 11), At(input, 12)), Dec(3, 10))),
            Mul(calculateMaintenanceUrgency(input), Dec(2, 10))))
calculateDowntimeFactor(input) ==
  Clamp(Add(Add(Add(Mul(At(input, 23), Dec(25, 100)),
                    Mul(Div(Add(At(input, 2), At(input, 3)), Dec(2, 1)), Dec(25, 100))),
                Mul(At(input, 18), Dec(25, 100))),
            Mul(calculateMaintenanceUrgency(input), Dec(25, 100))))

\* one iteration of MaintenanceForecasterModel.generateTrainingData
\* (lines 655-736)
maintenanceSample(r) ==
  LET age == Uniform(1, 24, r[1])
      hoursOperated == Uniform(1000, 99000, r[2])
      enginePower == Uniform(15000, 20000, r[3])
      length == Uniform(200, 200, r[4])
      engine == Lt(Fin(1, 2), r[5])
      componentAge == Mul(r[6], age)
      lastMaintenanceAge == Mul(Mul(r[7], age), Dec(8, 10))
      maintenanceCount == Floor(Uniform(0, 10, r[8]))
      failureCount == Floor(Uniform(0, 3, r[9]))
      operatingHours == Mul(r[10], hoursOperated)
      averageLoad == Add(Dec(4, 10), Mul(r[11], Dec(5, 10)))
      temperature == Uniform(40, 40, r[12])
      vibration == Uniform(1, 4, r[13])
      pressure == Uniform(20, 10, r[14])
      oilQuality == r[15]
      coolingEfficiency == Add(Dec(7, 10), Mul(r[16], Dec(3, 10)))
      dailyOperatingHours == Uniform(8, 16, r[17])
      startStopCycles == Floor(Uniform(0, 1000, r[18]))
      overloadFrequency == Mul(r[19], Dec(2, 10))
      environmentalStress == r[20]
      temperatureSlope == Add(Dec(-1, 10), Mul(r[21], Dec(2, 10)))
      vibrationSlope == Mul(r[22], Dec(1, 100))
      pressureSlope == Add(Dec(-1, 100), Mul(r[23], Dec(2, 100)))
      efficiencySlope == Add(Dec(-1, 1000), Mul(r[24], Dec(2, 1000)))
      input ==
        << Div(age, Dec(25, 1)),
           Div(hoursOperated, Dec(100000, 1)),
           Div(enginePower, Dec(35000, 1)),
           Div(length, Dec(400, 1)),
           Div(componentAge, age),
           Div(lastMaintenanceAge, age),
           Div(maintenanceCount, Dec(10, 1)),
           Div(failureCount, Dec(3, 1)),
           Div(operatingHours, hoursOperated),
           averageLoad,
           Div(temperature, Dec(80, 1)),
           Div(vibration, Dec(5, 1)),
           Div(pressure, Dec(30, 1)),
           oilQuality,
           coolingEfficiency,
           Div(dailyOperatingHours, Dec(24, 1)),
           Div(startStopCycles, Dec(1000, 1)),
           overloadFrequency,
           environmentalStress,
           Add(temperatureSlope, Dec(1, 10)),
           Div(vibrationSlope, Dec(1, 100)),
           Add(pressureSlope, Dec(1, 100)),
           Add(efficiencySlope, Dec(1, 1000)),
           IF engine THEN One ELSE Zero,
           r[25] >>
  IN  [input |-> input,
       output |-> << calculateRiskScore(input), calculateDaysToFailure(input),
                     calculateCostFactor(input), calculateDowntimeFactor(input),
                     calculateMaintenanceUrgency(input) >>]

\* the number of Math.random() calls of one iteration
drawsPerSample(m) == CASE m = Route -> 15 [] m = Fuel -> 23 [] m = Maintenance -> 25

sample(m, r) ==
  CASE m = Route -> routeSample(r)
    [] m = Fuel -> fuelSample(r)
    [] m = Maintenance -> maintenanceSample(r)

\* config.inputShape
inputShape(m) == CASE m = Route -> 15 [] m = Fuel -> 20 [] m = Maintenance -> 25

\* the largest sampleSize given to generateTrainingData
MaxSamples == 2


-----------------------------------------------------------------------------
(* The numeric path on its own: one computation per behaviour.             *)

InitCalc ==
  /\ Fresh([m \in Models |-> "none"])
  /\ calc \in CalcArgs

Computes(out) ==
  /\ ~calc.done
  /\ calc' = [calc EXCEPT !.done = TRUE, !.out = out]
  /\ UNCHANGED <<predictionHistory, recorded, model, isLoaded, artifact, fits,
                 loads, tasks, serviceInitialized, initializationError, reqs,
                 performanceMetrics, metricsFile, ret>>

CalcOptimizeRoute ==
  /\ calc.op = "predict" /\ calc.m = Route
  /\ Computes(routeOptimization(calc.input, calc.z))

CalcPredictFuelConsumption ==
  /\ calc.op = "predict" /\ calc.m = Fuel
  /\ Computes(fuelPrediction(calc.input, calc.z))

CalcPredictMaintenance ==
  /\ calc.op = "predict" /\ calc.m = Maintenance
  /\ Computes(predictMaintenanceResult([calc.fields EXCEPT !.shape = calc.input], calc.z))

CalcMaintenanceType ==
  /\ calc.op = "type"
  /\ Computes([NoOut EXCEPT
                 !.t1 = maintenanceType(Fin(calc.r1, 100), Fin(calc.u, 100)),
                 !.t2 = maintenanceType(Fin(calc.r2, 100), Fin(calc.u, 100))])

CalcAnalyzeFleetHealth ==
  /\ calc.op = "fleet"
  /\ Computes(analyzeFleetHealth(calc.fleet))

\* the same record encoded at two times
CalcPreprocessInputTwice ==
  /\ calc.op = "encode"
  /\ Computes([NoOut EXCEPT
                 !.first = encode(calc.m, calc.input, calc.now1),
                 !.second = encode(calc.m, calc.input, calc.now2)])

NextCalc ==
  \/ CalcAnalyzeFleetHealth
  \/ CalcPreprocessInputTwice
  \/ CalcOptimizeRoute
  \/ CalcPredictFuelConsumption
  \/ CalcPredictMaintenance
  \/ CalcMaintenanceType

SpecCalc == InitCalc /\ [][NextCalc]_vars

\* generateTrainingData(sampleSize): the loop, one iteration a step, and
\* the return.
InitGen ==
  /\ Fresh([m \in Models |-> "none"])
  /\ calc \in {[NoCalc EXCEPT !.op = "generate", !.m = m, !.sampleSize = n] :
                 m \in Models, n \in 0..MaxSamples}

GenerateSample ==
  /\ calc.op = "generate" /\ ~calc.done
  /\ Len(calc.out.outputs) < calc.sampleSize
  /\ \E r \in RandomStreams(drawsPerSample(calc.m)) :
       LET generated == sample(calc.m, r)
       IN  calc' = [calc EXCEPT !.out.inputs = Append(@, generated.input),
                                !.out.outputs = Append(@, generated.output)]
  /\ UNCHANGED <<predictionHistory, recorded, model, isLoaded, artifact, fits,
                 loads, tasks, serviceInitialized, initializationError, reqs,
                 performanceMetrics, metricsFile, ret>>

GenerateReturn ==
  /\ calc.op = "generate"
  /\ ~(Len(calc.out.outputs) < calc.sampleSize)
  /\ Computes(calc.out)

NextGen == GenerateSample \/ GenerateReturn

SpecGen == InitGen /\ [][NextGen]_vars

-----------------------------------------------------------------------------
(* Properties.                                                             *)

\* C1: the prediction history holds at most HistoryCap entries and always
\* equals the most recent min(n, HistoryCap) of the n entries recorded so far,
\* in the order they were recorded (eviction is oldest-first).
C1_HistoryIsMostRecent ==
  LET n == Len(recorded)
      k == IF n < HistoryCap THEN n ELSE HistoryCap
  IN  /\ Len(predictionHistory) = k
      /\ \A i \in 1..k : predictionHistory[i] = recorded[n - k + i]

\* C1 witness: more entries were recorded than the history holds.
C1_Evicted == ret.predict.done /\ Len(recorded) > HistoryCap

\* C2: a call of optimizeRoute, predictFuelConsumption or predictMaintenance
\* appends exactly one entry, carrying the model's name; success = TRUE when
\* the model call returned, success = FALSE with confidence 0 when it threw,
\* and then the operation throws that same error.
C2_OneEntryPerCall ==
  [][ret'.predict.done =>
       LET p == ret'.predict
           n == Len(recorded)
       IN  /\ Len(recorded') = n + 1
           /\ SubSeq(recorded', 1, n) = recorded
           /\ predictionHistory' # <<>>
           /\ predictionHistory'[Len(predictionHistory')] = recorded'[n + 1]
           /\ recorded'[n + 1].modelName = p.model
           /\ recorded'[n + 1].success = (p.error = "")
           /\ p.error # "" => recorded'[n + 1].confidence = 0
           /\ p.threw = p.error]_vars

\* C2 witness: a prediction on a model that is not loaded threw.
C2_CallThrew ==
  ret.predict.done /\ ret.predict.error = NotLoaded /\ ret.predict.threw = NotLoaded

\* C3: no inference runs on a model while a training run on that model is
\* in progress.
C3_NoInferenceWhileTraining ==
  ret.predict.done /\ ret.predict.inferred => fits[ret.predict.model] = 0

\* C4: at most one execution of AIService.initialize() is in progress.
C4_InitializeSerialized ==
  Cardinality({t \in TaskIds : IsInit(t) /\ tasks[t].pc \in {"models", "fit"}}) <= 1

\* C5: evaluateModels scores a model that has entries in the history from its
\* own most recent EvalWindow entries.
C5_ScoreFromOwnEntries ==
  ret.evaluation.done =>
    \A m \in Models :
      OfModel(predictionHistory, m) # <<>> =>
        RatEq(ret.evaluation.scores[m],
              Score(slice(OfModel(predictionHistory, m), EvalWindow)))

\* C6: evaluateModels returns a score for each of the three model names, and
\* exactly 0.5 for every model without an entry in the history.
C6_DefaultScoreWithoutHistory ==
  ret.evaluation.done =>
    /\ DOMAIN ret.evaluation.scores = {Route, Fuel, Maintenance}
    /\ \A m \in Models :
         OfModel(predictionHistory, m) = <<>> =>
           /\ ret.evaluation.scores[m].num * 2 = ret.evaluation.scores[m].den
           /\ ret.evaluation.scores[m].den > 0

\* C6 witness: an evaluation with entries of some models only.
C6_EvaluatedPartialHistory ==
  /\ ret.evaluation.done
  /\ \E m \in Models : OfModel(predictionHistory, m) = <<>>
  /\ \E m \in Models : OfModel(predictionHistory, m) # <<>>

\* C7: checkAndTrainModels starts a training of all three models exactly when
\* some evaluate score is strictly below performanceThreshold; otherwise it
\* starts no training and leaves every artifact alone.
C7_TrainIffBelowThreshold ==
  [][ret'.check.done =>
       LET scores == evaluateModels(predictionHistory)
           below == \E m \in Models :
                      scores[m].num * performanceThreshold.den
                        < performanceThreshold.num * scores[m].den
       IN  /\ ret'.check.needsTraining = below
           /\ below => \A m \in Models : fits'[m] = fits[m] + 1
           /\ ~below => fits' = fits /\ artifact' = artifact]_vars

\* C7 witness: checkAndTrainModels found every score at or above the
\* threshold.
C7_NoTrainingNeeded ==
  /\ ret.check.done
  /\ ~ret.check.needsTraining
  /\ \A m \in Models : OfModel(predictionHistory, m) # <<>>

\* C8 (as claimed): a request answered 503 has had an initialization attempt
\* made on its behalf, also when an earlier initialization had failed.
C8_EveryRejectedRequestRetried ==
  ret.http.done /\ ret.http.status = 503 => ret.http.attempted

Arrives(r) == reqs[r].pc = "none" /\ reqs'[r].pc # "none"

\* C8 (amended): the initialization error is retained; a request that finds
\* the service uninitialized with an error retained is answered 503 at once
\* and starts no initialization; one that finds it uninitialized without an
\* error starts one initialization of its own; a request is answered 503
\* only while the service is uninitialized and its handler runs only when
\* the service is initialized.
C8_RetainedErrorRejectsWithoutRetry ==
  [][/\ initializationError => initializationError'
     /\ \A r \in Reqs :
          Arrives(r) =>
            IF serviceInitialized
            THEN tasks'[Mw(r)] = IdleTask /\ ret'.http.done /\ ret'.http.status # 503
            ELSE IF initializationError
            THEN /\ tasks' = tasks
                 /\ ret'.http = [done |-> TRUE, req |-> r, status |-> 503,
                                 attempted |-> FALSE, unread |-> FALSE]
            ELSE /\ tasks'[Mw(r)].pc # "idle"
                 /\ \A r2 \in Reqs \ {r} : tasks'[Mw(r2)] = tasks[Mw(r2)]
     /\ ret'.http.done =>
          /\ tasks'[Mw(ret'.http.req)].pc \in {"idle", "done"}
          /\ ret'.http.status = 503 <=> ~serviceInitialized'
          /\ ret'.http.attempted <=> tasks'[Mw(ret'.http.req)].pc = "done"]_vars

\* C8 witness: a request was rejected because of a retained error.
C8_RejectedOnRetainedError ==
  ret.http.done /\ ret.http.status = 503 /\ ~ret.http.attempted /\ initializationError

\* C9: a failure of auto-training does not make AIService.initialize fail and
\* leaves no initialization error behind.
C9_AutoTrainFailureOnlyLogged ==
  ret.finish.done /\ IsInit(ret.finish.task) /\ ret.finish.cause = "train"
    => ret.finish.ok /\ ~initializationError

\* C10: a prediction issued while its model is not ready fails with the
\* not-loaded error, for each of the three models.
C10_UnreadyPredictionFails ==
  ret.predict.done /\ ~ret.predict.ready => ret.predict.error = NotLoaded

\* C11: an artifact that exists but cannot be loaded does not make an
\* initialization fail: no AIService.initialize execution ends in the failure
\* of a model's loadModel.
C11_UnloadableArtifactRecovered ==
  ret.finish.done /\ IsInit(ret.finish.task) /\ ~ret.finish.ok
    => ret.finish.cause # "load"

\* C13: on a successful prediction the entry appended to the history carries
\* the confidence of that prediction, for each of the three models.
C13_EntryCarriesConfidence ==
  ret.predict.done /\ ret.predict.error = ""
    => recorded[Len(recorded)].confidence = ret.predict.confidence

C14_RawInUnitInterval ==
  calc.done /\ calc.op = "predict" /\ calc.input = Complete /\ calc.out.error = ""
    => \A i \in DOMAIN calc.out.prediction :
         /\ isFinite(calc.out.prediction[i])
         /\ ~Lt(calc.out.prediction[i], Zero)
         /\ ~Lt(One, calc.out.prediction[i])

\* C15: for a raw output of finite components the confidence is a number in
\* [0,1]: 0 when max(raw) = 0, and otherwise 1 - (max - min) / max = min / max
\* cut to [0,1].
C15_ConfidenceDefined ==
  calc.done /\ calc.op = "predict" /\ calc.out.error = ""
    /\ (\A i \in DOMAIN calc.out.prediction : isFinite(calc.out.prediction[i]))
    => LET c == calc.out.confidence
           max == MaxOf(calc.out.prediction)
           min == MinOf(calc.out.prediction)
       IN  /\ isFinite(c)
           /\ ~Lt(c, Zero) /\ ~Lt(One, c)
           /\ IF max.num = 0 THEN c.num = 0
              ELSE LET q == Fin(Sign(max.num) * min.num * max.den,
                                Sign(max.num) * min.den * max.num)
                   IN  Same(c, IF Lt(q, Zero) THEN Zero ELSE IF Lt(One, q) THEN One ELSE q)

\* C16: for a complete input and any weights every estimate stays in its
\* band: baseline <= estimate <= baseline * (1 + k).
C16_EstimatesInBand ==
  calc.done /\ calc.op = "predict" /\ calc.input = Complete /\ calc.out.error = ""
    => \A i \in DOMAIN calc.out.estimates :
         LET e == calc.out.estimates[i]
         IN  /\ isFinite(e.value)
             /\ ~Lt(e.value, e.base)
             /\ ~Lt(Fin(e.base.num * (e.k.den + e.k.num), e.base.den * e.k.den), e.value)

\* C17: a prediction that returns has no non-finite component in its raw
\* output, in each of the three models.
C17_NonFiniteRejected ==
  calc.done /\ calc.op = "predict" /\ calc.out.error = ""
    => \A i \in DOMAIN calc.out.prediction : isFinite(calc.out.prediction[i])

\* C18: a prediction on an input that lacks a required scalar fails with the
\* validation error, and no feature vector with a NaN component reaches the
\* network, in each of the three models.
C18_MissingScalarRejected ==
  calc.done /\ calc.op = "predict" /\ calc.input = NoScalar
    => calc.out.error = BadInput /\ ~calc.out.fedNaN

RECURSIVE SetSum(_, _)
SetSum(f, S) ==
  IF S = {} THEN 0
  ELSE LET x == CHOOSE y \in S : TRUE IN f[x] + SetSum(f, S \ {x})

\* C21: analyzeFleetHealth returns, over the elements whose prediction
\* succeeds (at least one), overall = the mean of 1 - riskScore, trend =
\* degrading when the mean risk is above 0.6, improving when it is below 0.3
\* and stable otherwise, and one critical issue exactly for each element with
\* riskScore > 0.8; so with every riskScore 0 it returns overall 1, trend
\* improving and no critical issue.
C21_FleetAggregates ==
  (calc.op = "fleet" /\ calc.done /\ calc.out.error = "") =>
    LET inputs == calc.fleet
        ok == {i \in 1..Len(inputs) : elementPrediction(inputs[i]).error = ""}
        hundredths ==
          [i \in 1..Len(inputs) |->
             IF i \in ok
             THEN LET r == elementPrediction(inputs[i]).prediction[1]
                  IN  (r.num * 100) \div r.den
             ELSE 0]
        total == SetSum(hundredths, ok)
        n == Cardinality(ok)
        critical == {i \in ok : hundredths[i] > 80}
    IN  /\ n > 0 =>
             /\ Same(calc.out.overall, Fin(100 * n - total, 100 * n))
             /\ calc.out.trend = IF total > 60 * n THEN "degrading"
                                 ELSE IF total < 30 * n THEN "improving"
                                 ELSE "stable"
        /\ Len(calc.out.criticalIssues) = Cardinality(critical)
        /\ {calc.out.criticalIssues[j] : j \in 1..Len(calc.out.criticalIssues)} = critical
        /\ (n > 0 /\ total = 0) =>
             /\ Same(calc.out.overall, One)
             /\ calc.out.trend = "improving"
             /\ calc.out.criticalIssues = <<>>

C21_MixedFleetAnalyzed ==
  /\ calc.op = "fleet" /\ calc.done /\ calc.out.error = ""
  /\ Len(calc.out.predictions) = 2
  /\ Len(calc.out.logged) = 1
  /\ Len(calc.out.criticalIssues) = 1
  /\ calc.out.trend = "stable"

\* C22: analyzeFleetHealth does not throw, whatever the elements of its
\* list are, and handles every element: each one either contributes a
\* prediction or is logged and left out.
C22_FleetContinuesPastFailures ==
  (calc.op = "fleet" /\ calc.done) =>
    /\ calc.out.error = ""
    /\ Len(calc.out.predictions) + Len(calc.out.logged) = Len(calc.fleet)

\* C23: encoding the same input record twice with preprocessInput of a
\* model yields the same feature vector, whenever the two encodings are
\* performed.
C23_EncodingDeterministic ==
  (calc.op = "encode" /\ calc.done) => calc.out.first = calc.out.second

\* C24: generateTrainingData(N) of each model returns exactly N input
\* vectors and N output vectors, every input vector of the configured input
\* length, every output vector of the configured output length, and every
\* target finite and within [0,1].
C24_TrainingDataWellFormed ==
  (calc.op = "generate" /\ calc.done) =>
    /\ Len(calc.out.inputs) = calc.sampleSize
    /\ Len(calc.out.outputs) = calc.sampleSize
    /\ \A i \in 1..Len(calc.out.inputs) :
         Len(calc.out.inputs[i]) = inputShape(calc.m)
    /\ \A i \in 1..Len(calc.out.outputs) :
         /\ Len(calc.out.outputs[i]) = outputShape(calc.m)
         /\ \A j \in 1..Len(calc.out.outputs[i]) :
              LET target == calc.out.outputs[i][j]
              IN  isFinite(target) /\ ~Lt(target, Zero) /\ ~Lt(One, target)

C24_ClampedSampleGenerated ==
  /\ calc.op = "generate" /\ calc.done /\ calc.m = Route
  /\ calc.sampleSize = MaxSamples
  /\ Same(calc.out.outputs[1][2], Zero)
  /\ Lt(Zero, calc.out.outputs[2][2])

\* C25: when trainAllModels has returned or thrown (here: inside
\* initialize, which passes its outcome on), no model.fit that it started is
\* still running.
C25_NoTrainingOutlivesTrainAll ==
  (ret.finish.done /\ ret.finish.task = ApiInit) => \A m \in Models : fits[m] = 0

\* C26: the flags serviceInitialized and initializationError of the HTTP
\* layer are never both set.
C26_InitializedExcludesError ==
  ~(serviceInitialized /\ initializationError)

\* C27: after importModels has completed successfully, the artifacts of
\* the storage directory are the imported ones, whatever the history is.
C27_ImportedArtifactsKept ==
  (ret.finish.done /\ ret.finish.task = Import /\ ret.finish.ok)
    => \A m \in Models : artifact[m] = "imported"

\* C28: when trainAllModels has updated the metrics, every model's entry is
\* computed from one set of history entries, the predictionCount most
\* recent ones of the model: its averageConfidence is their mean confidence,
\* and its accuracy is the default 0.5 when there are none and otherwise
\* 0.7 * successRate + 0.3 * averageConfidence over them.
C28_MetricsFromOneSet ==
  (ret.finish.done /\ ret.finish.task = Bg(1) /\ ret.finish.ok) =>
    \A m \in Models :
      LET entries == slice(OfModel(predictionHistory, m), EvalWindow)
          metric == performanceMetrics[m]
      IN  /\ metric.set
          /\ metric.predictionCount = Len(entries)
          /\ IF Len(entries) = 0
             THEN RatEq(metric.accuracy, DefaultScore)
             ELSE /\ RatEq(metric.averageConfidence,
                           Rat(SumConfidence(entries), 10 * Len(entries)))
                  /\ RatEq(metric.accuracy, Score(entries))

\* C29: whenever predictMaintenance emits a predictedFailureDate, the
\* recommendedMaintenanceDate of the result is not later than it.
C29_MaintenanceBeforeFailure ==
  (calc.op = "predict" /\ calc.m = Maintenance /\ calc.done /\ calc.out.error = ""
     /\ calc.out.predictedFailureDate # NoDate)
    => ~Lt(calc.out.predictedFailureDate, calc.out.recommendedMaintenanceDate)

\* C30: a maintenance input that is complete but for malformed optional or
\* date-typed fields does not make predictMaintenance fail.
C30_MalformedFieldsDefaulted ==
  (calc.op = "predict" /\ calc.m = Maintenance /\ calc.done /\ calc.input = Complete)
    => calc.out.error = ""

=============================================================================
